---- MODULE Spec2Model ----
(***************************************************************************)
(* The transcript scraper of src/transcript.py: get_transcript, with its   *)
(* nested try/except fallback chain over the youtube-transcript-api calls, *)
(* and the per-video loop of main that writes the report file.             *)
(*                                                                         *)
(* The upstream library is the environment.  A call of it either returns   *)
(* what the video's transcript tracks determine or raises; the model takes *)
(* every such outcome.  A text is a sequence of one-character strings, a   *)
(* transcript's data a sequence of segment texts.                          *)
(***************************************************************************)
EXTENDS Integers, Sequences, FiniteSets, TLC

VARIABLES
    lib,              \* the installed library: "current" (has list_transcripts) or "legacy"
    video_data,       \* main: the list of videos returned by get_channel_videos
    i,                \* main: enumerate index of the video being processed
    pc,               \* control position in main / get_transcript
    transcript_list,  \* get_transcript: result of list_transcripts
    transcript,       \* get_transcript: the Transcript object found or translated
    transcript_data,  \* get_transcript: the fetched data
    lang_idx,         \* get_transcript: position of the legacy for loop in language_codes
    result,           \* the value get_transcript returned
    attempted,        \* history: the strategies this call has attempted, in order
    raised,           \* history: the exceptions raised during this call, in order
    f,                \* main: the lines written to the output file
    successful,       \* main: counter
    failed            \* main: counter

vars == <<lib, video_data, i, pc, transcript_list, transcript, transcript_data,
          lang_idx, result, attempted, raised, f, successful, failed>>

-----------------------------------------------------------------------------
(* Bounds of the model.                                                    *)

MaxTracks == 2
MaxVideos == 3
MaxSegs == 3
MaxSegLen == 2

-----------------------------------------------------------------------------
(* Transcript tracks and videos: the environment's data.                   *)

Track(lang, generated, translatable, segs) ==
    [lang |-> lang, generated |-> generated, translatable |-> translatable,
     translated |-> FALSE, segs |-> segs]

ManualEn      == Track("en", FALSE, TRUE, << <<"a">>, <<"b">>, <<"c">> >>)
GeneratedEn   == Track("en", TRUE, TRUE, << <<"x">>, <<>>, <<"y", "z">> >>)
ManualDe      == Track("de", FALSE, TRUE, << <<"d">>, <<"e">> >>)
GeneratedFr   == Track("fr", TRUE, FALSE, << <<"f">> >>)
ManualEnGB    == Track("en-GB", FALSE, TRUE, << <<"g">> >>)
EmptyManualEn == Track("en", FALSE, TRUE, << >>)
BlankGenEn    == Track("en", TRUE, TRUE, << <<>> >>)

TrackKinds ==
    {ManualEn, GeneratedEn, ManualDe, GeneratedFr, ManualEnGB, EmptyManualEn, BlankGenEn}

SeqsUpTo(S, n) == UNION {[1..k -> S] : k \in 0..n}

\* A TranscriptList holds one track per language and kind and iterates the
\* manually created ones before the generated ones.
WellListed(ts) ==
    \A j, k \in DOMAIN ts :
        j < k => /\ ~(ts[j].lang = ts[k].lang /\ ts[j].generated = ts[k].generated)
                 /\ ~(ts[j].generated /\ ~ts[k].generated)

TrackLists == {ts \in SeqsUpTo(TrackKinds, MaxTracks) : WellListed(ts)}

Video(id, tracks) == [id |-> id, title |-> 10 + id, tracks |-> tracks]

\* The videos of the report loop's runs.
MainTrackLists == {<< >>, <<ManualEn>>, <<EmptyManualEn, BlankGenEn>>}

NoTranscript == Track("", FALSE, FALSE, << >>)

\* transcript_data: unbound, None, a list of {'text': ...} entries, or a
\* non-empty value whose entries cannot be subscripted with 'text'.
Data(kind, segs) == [kind |-> kind, segs |-> segs]
Unbound   == Data("unbound", << >>)
NoneData  == Data("none", << >>)
Malformed == Data("malformed", << >>)

-----------------------------------------------------------------------------
(* Pure parts of get_transcript and main.                                  *)

\* return "" where the code returns None
EmptyText == [none |-> FALSE, text |-> << >>]

\* What get_transcript returns: None or a str.
NotFound == [none |-> TRUE, text |-> << >>]
Text(t)  == [none |-> FALSE, text |-> t]

language_codes == <<"en", "en-US", "en-GB">>

\* ''.join(texts): the separator forgotten
RECURSIVE JoinNoSeparator(_)
JoinNoSeparator(texts) ==
    IF texts = << >> THEN << >> ELSE texts[1] \o JoinNoSeparator(Tail(texts))

\* ' '.join(texts)
RECURSIVE Join(_)
Join(texts) ==
    IF texts = << >> THEN << >>
    ELSE IF Len(texts) = 1 THEN texts[1]
    ELSE texts[1] \o <<" ">> \o Join(Tail(texts))

\* Python truth value of transcript_data (line 114, line 121).
DataTruthy(d) == \/ d.kind = "malformed"
                 \/ d.kind = "list" /\ d.segs # << >>

\* "if transcript is not None" where the code tests the truth value
IsNotNone(r) == ~r.none

\* Python truth value of what get_transcript returned (line 166).
Truthy(r) == ~r.none /\ r.text # << >>

\* The except clauses: which exceptions each catches.  The exceptions of
\* the model are AttributeError and Exception (any other subclass of it).
ExcKinds == {"AttributeError", "Exception"}

\* "except HttpError", as get_channel_id has it, where the code has "except Exception"
CatchesHttpError(clause, exc) ==
    CASE clause = "bare" -> TRUE
      [] clause = "AttributeError" -> exc = "AttributeError"
      [] OTHER -> FALSE

Catches(clause, exc) ==
    CASE clause = "bare" -> TRUE
      [] clause = "AttributeError" -> exc = "AttributeError"
      [] clause = "Exception" -> exc \in ExcKinds
      [] OTHER -> FALSE

Clause(clause, target) == [clause |-> clause, target |-> target]

\* The try statements enclosing each call site, innermost first, each with
\* the place its handler resumes at.
TryChain(site) ==
    CASE site = "list_transcripts" ->
            <<Clause("AttributeError", "legacy"), Clause("Exception", "except")>>
      [] site \in {"find_manual", "fetch_manual"} ->
            <<Clause("bare", "find_generated"), Clause("AttributeError", "legacy"),
              Clause("Exception", "except")>>
      [] site \in {"find_generated", "fetch_generated"} ->
            <<Clause("bare", "list_available"), Clause("AttributeError", "legacy"),
              Clause("Exception", "except")>>
      [] site \in {"translate", "fetch_translated"} ->
            <<Clause("AttributeError", "legacy"), Clause("Exception", "except")>>
      [] site = "legacy_lang" ->
            <<Clause("bare", "continue"), Clause("Exception", "except")>>
      [] site = "legacy_any" ->
            <<Clause("bare", "return_none"), Clause("Exception", "except")>>
      [] OTHER -> <<Clause("Exception", "except")>>

\* Where an exception raised at a site resumes: the first enclosing clause
\* that catches it, or it propagates out of get_transcript.
Handler(site, exc) ==
    LET chain == TryChain(site)
        hits  == {k \in DOMAIN chain : Catches(chain[k].clause, exc)}
    IN  IF hits = {} THEN "propagate"
        ELSE chain[CHOOSE k \in hits : \A m \in hits : k <= m].target

\* Transcript.translate('en')
EnChar(c) ==
    CASE c = "a" -> "A" [] c = "b" -> "B" [] c = "c" -> "C" [] c = "d" -> "D"
      [] c = "e" -> "E" [] c = "f" -> "F" [] c = "g" -> "G" [] c = "x" -> "X"
      [] c = "y" -> "Y" [] c = "z" -> "Z" [] OTHER -> c

translate(t) ==
    [t EXCEPT !.lang = "en", !.translated = TRUE,
              !.segs = [k \in DOMAIN t.segs |->
                            [m \in DOMAIN t.segs[k] |-> EnChar(t.segs[k][m])]]]

\* find_transcript, which takes a track of either kind, where the code asks
\* for one kind
find_transcript(tl, codes) == {k \in DOMAIN tl : tl[k].lang \in codes}

\* the lookup of the other kind, as a copied line would have it
find_other_kind(tl, codes) ==
    {k \in DOMAIN tl : ~tl[k].generated /\ tl[k].lang \in codes}

\* TranscriptList.find_manually_created_transcript / find_generated_transcript:
\* the tracks of the wanted kind in one of the language codes.
find_manually_created_transcript(tl, codes) ==
    {k \in DOMAIN tl : ~tl[k].generated /\ tl[k].lang \in codes}

find_generated_transcript(tl, codes) ==
    {k \in DOMAIN tl : tl[k].generated /\ tl[k].lang \in codes}

\* Lines 121-125: the value returned for the fetched data.
Combine(d) == IF DataTruthy(d) THEN Text(Join(d.segs)) ELSE NotFound

-----------------------------------------------------------------------------
(* get_transcript, one action per call site.                               *)

v == video_data[i]

\* An exception raised at a site: control resumes at its handler.
Raise(site, exc, cause) ==
    LET target == Handler(site, exc) IN
    /\ raised' = Append(raised, [site |-> site, exc |-> exc, cause |-> cause])
    /\ pc' = CASE target \in {"find_generated", "list_available"} -> target
               [] target = "legacy" -> "legacy_loop"
               [] target = "continue" ->
                    IF lang_idx < Len(language_codes) THEN "legacy_loop" ELSE "legacy_rest"
               [] target \in {"return_none", "except"} -> "ret"
               [] OTHER -> "crashed"
    /\ lang_idx' = CASE target = "legacy" -> 1
                     [] target = "continue" -> lang_idx + 1
                     [] OTHER -> lang_idx
    /\ transcript_data' = IF target = "legacy" THEN NoneData ELSE transcript_data
    /\ result' = IF target \in {"return_none", "except"} THEN NotFound ELSE result

\* A fetch returns the track's entries, or entries that are not dicts.
Fetched(t) == {Data("list", t.segs)} \cup (IF t.segs # << >> THEN {Malformed} ELSE {})

main_vars == <<lib, video_data, i, f, successful, failed>>

\* line 80
ListTranscripts ==
    /\ pc = "list"
    /\ \/ /\ lib = "current"
          /\ transcript_list' = v.tracks
          /\ pc' = "find_manual"
          /\ UNCHANGED <<raised, lang_idx, transcript_data, result>>
       \/ /\ \E exc \in ExcKinds :
                /\ (exc = "AttributeError") <=> (lib = "legacy")
                /\ Raise("list_transcripts", exc,
                         IF lib = "legacy" THEN "version" ELSE "error")
          /\ UNCHANGED transcript_list
    /\ UNCHANGED <<transcript, attempted>>
    /\ UNCHANGED main_vars

\* line 84
FindManual ==
    /\ pc = "find_manual"
    /\ attempted' = Append(attempted, "manual")
    /\ \/ /\ \E k \in find_manually_created_transcript(transcript_list, {"en"}) :
                transcript' = transcript_list[k]
          /\ pc' = "fetch_manual"
          /\ UNCHANGED <<raised, lang_idx, transcript_data, result>>
       \/ /\ find_manually_created_transcript(transcript_list, {"en"}) = {}
          /\ Raise("find_manual", "Exception", "missing")
          /\ UNCHANGED transcript
    /\ UNCHANGED transcript_list
    /\ UNCHANGED main_vars

\* line 85
FetchManual ==
    /\ pc = "fetch_manual"
    /\ \/ /\ \E d \in Fetched(transcript) : transcript_data' = d
          /\ pc' = "combine"
          /\ UNCHANGED <<raised, lang_idx, result>>
       \/ Raise("fetch_manual", "Exception", "error")
    /\ UNCHANGED <<transcript_list, transcript, attempted>>
    /\ UNCHANGED main_vars

\* line 89
FindGenerated ==
    /\ pc = "find_generated"
    /\ attempted' = Append(attempted, "auto")
    /\ \/ /\ \E k \in find_generated_transcript(transcript_list, {"en"}) :
                transcript' = transcript_list[k]
          /\ pc' = "fetch_generated"
          /\ UNCHANGED <<raised, lang_idx, transcript_data, result>>
       \/ /\ find_generated_transcript(transcript_list, {"en"}) = {}
          /\ Raise("find_generated", "Exception", "missing")
          /\ UNCHANGED transcript
    /\ UNCHANGED transcript_list
    /\ UNCHANGED main_vars

\* line 90
FetchGenerated ==
    /\ pc = "fetch_generated"
    /\ \/ /\ \E d \in Fetched(transcript) : transcript_data' = d
          /\ pc' = "combine"
          /\ UNCHANGED <<raised, lang_idx, result>>
       \/ Raise("fetch_generated", "Exception", "error")
    /\ UNCHANGED <<transcript_list, transcript, attempted>>
    /\ UNCHANGED main_vars

\* lines 93-94 and 97-98
ListAvailable ==
    /\ pc = "list_available"
    /\ attempted' = Append(attempted, "translate")
    /\ pc' = IF transcript_list # << >> THEN "translate" ELSE "ret"
    /\ result' = IF transcript_list # << >> THEN result ELSE NotFound
    /\ UNCHANGED <<transcript_list, transcript, transcript_data, lang_idx, raised>>
    /\ UNCHANGED main_vars

\* line 95
Translate ==
    /\ pc = "translate"
    /\ \/ /\ transcript_list[1].translatable
          /\ transcript' = translate(transcript_list[1])
          /\ pc' = "fetch_translated"
          /\ UNCHANGED <<raised, lang_idx, transcript_data, result>>
       \/ /\ \E exc \in ExcKinds, cause \in {"untranslatable", "error"} :
                /\ (cause = "untranslatable") =>
                       (~transcript_list[1].translatable /\ exc = "Exception")
                /\ Raise("translate", exc, cause)
          /\ UNCHANGED transcript
    /\ UNCHANGED <<transcript_list, attempted>>
    /\ UNCHANGED main_vars

\* line 96
FetchTranslated ==
    /\ pc = "fetch_translated"
    /\ \/ /\ \E d \in Fetched(transcript) : transcript_data' = d
          /\ pc' = "combine"
          /\ UNCHANGED <<raised, lang_idx, result>>
       \/ \E exc \in ExcKinds : Raise("fetch_translated", exc, "error")
    /\ UNCHANGED <<transcript_list, transcript, attempted>>
    /\ UNCHANGED main_vars

\* lines 106-111: one iteration of the loop over language_codes
LegacyLang ==
    /\ pc = "legacy_loop"
    /\ attempted' = IF lang_idx = 1 THEN Append(attempted, "legacy") ELSE attempted
    /\ \/ /\ \E k \in DOMAIN v.tracks :
                /\ v.tracks[k].lang = language_codes[lang_idx]
                /\ transcript_data' = Data("list", v.tracks[k].segs)
          /\ pc' = "legacy_rest"
          /\ UNCHANGED <<raised, lang_idx, result>>
       \/ \E cause \in {"missing", "error"} :
             /\ (cause = "missing") =>
                    (\A k \in DOMAIN v.tracks : v.tracks[k].lang # language_codes[lang_idx])
             /\ Raise("legacy_lang", "Exception", cause)
    /\ UNCHANGED <<transcript_list, transcript>>
    /\ UNCHANGED main_vars

\* lines 114-118
LegacyAny ==
    /\ pc = "legacy_rest"
    /\ IF DataTruthy(transcript_data)
       THEN /\ pc' = "combine"
            /\ UNCHANGED <<raised, lang_idx, transcript_data, result>>
       ELSE \/ /\ \E k \in DOMAIN v.tracks :
                     transcript_data' = Data("list", v.tracks[k].segs)
               /\ pc' = "combine"
               /\ UNCHANGED <<raised, lang_idx, result>>
            \/ \E cause \in {"missing", "error"} :
                  /\ (cause = "missing") =>
                         (\A k \in DOMAIN v.tracks : v.tracks[k].lang # "en")
                  /\ Raise("legacy_any", "Exception", cause)
    /\ UNCHANGED <<transcript_list, transcript, attempted>>
    /\ UNCHANGED main_vars

\* lines 121-125, and 127-129 when the join raises
CombineText ==
    /\ pc = "combine"
    /\ IF transcript_data.kind \in {"malformed", "unbound"}
       THEN Raise("join", "Exception", "malformed")
       ELSE /\ result' = Combine(transcript_data)
            /\ pc' = "ret"
            /\ UNCHANGED <<raised, lang_idx, transcript_data>>
    /\ UNCHANGED <<transcript_list, transcript, attempted>>
    /\ UNCHANGED main_vars

get_transcript ==
    \/ ListTranscripts
    \/ FindManual
    \/ FetchManual
    \/ FindGenerated
    \/ FetchGenerated
    \/ ListAvailable
    \/ Translate
    \/ FetchTranslated
    \/ LegacyLang
    \/ LegacyAny
    \/ CombineText

-----------------------------------------------------------------------------
(* main: the report file and the loop over video_data.                     *)

DashWidth == 30
EqualsWidth == 50

\* The lines of the report.  n is the video id of a URL line, the title of
\* a VIDEO or FAILED line and the width of a rule.
Line(kind, n, text) == [kind |-> kind, n |-> n, text |-> text]
Blank == Line("", 0, << >>)
Rule(ch, width) == Line(ch, width, << >>)

\* the short link where the code writes the watch URL
ShortUrlLine(video_id) == Line("URL: https://youtu.be/", video_id, << >>)

\* f"URL: https://youtube.com/watch?v={video_id}\n"
UrlLine(video_id) == Line("URL: https://youtube.com/watch?v=", video_id, << >>)

\* lines 155-156
Header == <<Line("Transcripts from", 0, << >>), Rule("=", EqualsWidth), Blank>>

\* lines 167-171
SuccessRecord(video, text) ==
    <<Line("VIDEO: ", video.title, << >>), UrlLine(video.id), Rule("-", DashWidth),
      Line("text", 0, text), Blank, Rule("=", EqualsWidth), Blank>>

\* nothing written for a failed video
NoRecord(video) == << >>

\* lines 174-176
FailureRecord(video) ==
    <<Line("FAILED TO GET TRANSCRIPT: ", video.title, << >>), UrlLine(video.id),
      Rule("-", DashWidth), Blank>>

call_vars == <<transcript_list, transcript, transcript_data, lang_idx, result,
               attempted, raised>>

\* The locals of get_transcript when it is entered.
Entered ==
    /\ transcript_list = << >>
    /\ transcript = NoTranscript
    /\ transcript_data = Unbound
    /\ lang_idx = 0
    /\ result = NotFound
    /\ attempted = << >>
    /\ raised = << >>

\* lines 161-164: the for loop takes the next video and calls get_transcript
NextVideo ==
    /\ pc = "loop"
    /\ i < Len(video_data)
    /\ i' = i + 1
    /\ pc' = "list"
    /\ transcript_list' = << >>
    /\ transcript' = NoTranscript
    /\ transcript_data' = Unbound
    /\ lang_idx' = 0
    /\ result' = NotFound
    /\ attempted' = << >>
    /\ raised' = << >>
    /\ UNCHANGED <<lib, video_data, f, successful, failed>>

\* lines 166-177: the record of the video, and back to the loop
WriteRecord ==
    /\ pc = "ret"
    /\ IF Truthy(result)
       THEN /\ f' = f \o SuccessRecord(v, result.text)
            /\ successful' = successful + 1
            /\ UNCHANGED failed
       ELSE /\ f' = f \o FailureRecord(v)
            /\ failed' = failed + 1
            /\ UNCHANGED successful
    /\ pc' = "loop"
    /\ UNCHANGED <<lib, video_data, i>>
    /\ UNCHANGED call_vars

\* lines 181-183: the loop is exhausted and the file is closed
Finish ==
    /\ pc = "loop"
    /\ i = Len(video_data)
    /\ pc' = "done"
    /\ UNCHANGED <<lib, video_data, i, f, successful, failed>>
    /\ UNCHANGED call_vars

Libs == {"current", "legacy"}

\* The state of main when get_transcript is entered for its only video.
Called(l, tracks) ==
    /\ lib = l
    /\ video_data = <<Video(1, tracks)>>
    /\ i = 1
    /\ f = Header
    /\ successful = 0
    /\ failed = 0

-----------------------------------------------------------------------------
(* Spec: one call of get_transcript, on any video and library.             *)

Init ==
    /\ \E l \in Libs, tracks \in TrackLists : Called(l, tracks)
    /\ pc = "list"
    /\ Entered

Next == get_transcript

Spec == Init /\ [][Next]_vars

-----------------------------------------------------------------------------
(* MainSpec: the loop of main over up to MaxVideos videos.                 *)

Inputs ==
    {[k \in DOMAIN tls |-> Video(k, tls[k])] : tls \in SeqsUpTo(MainTrackLists, MaxVideos)}

MainInit ==
    /\ lib \in Libs
    /\ video_data \in Inputs
    /\ i = 0
    /\ pc = "loop"
    /\ f = Header
    /\ successful = 0
    /\ failed = 0
    /\ Entered

MainNext ==
    \/ NextVideo
    \/ get_transcript
    \/ WriteRecord
    \/ Finish

MainSpec == MainInit /\ [][MainNext]_vars

\* The interpreter runs the program to its end: it does not stop between
\* two statements.
FairMainSpec == MainSpec /\ WF_vars(MainNext)

-----------------------------------------------------------------------------
(* JoinSpec: the data of a fetched manual transcript, any segments up to   *)
(* the bounds, at the join of lines 121-125.                               *)

\* The segment texts: every text of up to MaxSegLen letters, and "c".
Alphabet == {"a", "b"}
SegTexts == SeqsUpTo(Alphabet, MaxSegLen) \cup {<<"c">>}
SegLists == SeqsUpTo(SegTexts, MaxSegs)

JoinInit ==
    \E segs \in SegLists :
        LET t == Track("en", FALSE, TRUE, segs) IN
        /\ Called("current", <<t>>)
        /\ pc = "combine"
        /\ transcript_list = <<t>>
        /\ transcript = t
        /\ transcript_data = Data("list", segs)
        /\ lang_idx = 0
        /\ result = NotFound
        /\ attempted = <<"manual">>
        /\ raised = << >>

JoinNext == CombineText

JoinSpec == JoinInit /\ [][JoinNext]_vars

-----------------------------------------------------------------------------
(* The claims' vocabulary.                                                 *)

\* An exception was raised at one of the sites during this call.
RaisedAt(sites) == \E k \in DOMAIN raised : raised[k].site \in sites

\* The call is past list_transcripts, which returned the listing.
Listed == lib = "current" /\ pc # "list" /\ ~RaisedAt({"list_transcripts"})

\* The tracks a claim speaks of.
ManualEnglish(video) ==
    {k \in DOMAIN video.tracks :
        video.tracks[k].lang = "en" /\ ~video.tracks[k].generated}

OnlyGeneratedEnglish(video) ==
    /\ Len(video.tracks) = 1
    /\ video.tracks[1].lang = "en"
    /\ video.tracks[1].generated

NoEnglish(video) ==
    /\ video.tracks # << >>
    /\ \A k \in DOMAIN video.tracks :
          \A c \in DOMAIN language_codes : video.tracks[k].lang # language_codes[c]

\* Where segment k starts in the joined text, counted from 0.
RECURSIVE Offset(_, _)
Offset(segs, k) == IF k = 1 THEN 0 ELSE Offset(segs, k - 1) + Len(segs[k - 1]) + 1

\* text is the segments in order, one space between two consecutive ones,
\* nothing before the first and nothing after the last.
SpaceJoined(text, segs) ==
    /\ segs # << >>
    /\ Len(text) = Offset(segs, Len(segs)) + Len(segs[Len(segs)])
    /\ \A k \in DOMAIN segs :
          /\ \A m \in DOMAIN segs[k] : text[Offset(segs, k) + m] = segs[k][m]
          /\ k < Len(segs) => text[Offset(segs, k) + Len(segs[k]) + 1] = " "

\* get_transcript returned the text of the track.
ReturnedTextOf(track) == ~result.none /\ SpaceJoined(result.text, track.segs)

\* get_transcript returned what the code makes of the track's fetched data:
\* its text, or None when it has no segment or the join raised.
ReturnedDataOf(track) ==
    IF track.segs # << >> /\ ~RaisedAt({"join"})
    THEN ReturnedTextOf(track)
    ELSE result.none

-----------------------------------------------------------------------------
(* C1 *)

-----------------------------------------------------------------------------
(* C2 *)

\* C2 as stated, on the calls whose listing succeeded: for a video whose
\* only transcript is an auto-generated English one, get_transcript returns
\* the auto-generated text and never invokes the translate fallback.  (None
\* is taken here for the text of a transcript that has no segment or cannot
\* be joined: the statement fails without that too.)
C2_GeneratedNeverTranslates ==
    (Listed /\ OnlyGeneratedEnglish(v)) =>
        /\ "translate" \notin {attempted[k] : k \in DOMAIN attempted}
        /\ pc = "ret" => ReturnedDataOf(v.tracks[1])

\* C2 amended: for a video whose only transcript is an auto-generated
\* English one, the translate fallback is invoked only after the
\* auto-generated transcript's fetch has raised; when list_transcripts and
\* that fetch succeed, the call returns the auto-generated text, or None
\* when the transcript has no segment or its join raises.
C2_GeneratedUnlessFetchRaises ==
    OnlyGeneratedEnglish(v) =>
        /\ "translate" \in {attempted[k] : k \in DOMAIN attempted}
              => RaisedAt({"fetch_generated"})
        /\ (pc = "ret" /\ Listed /\ ~RaisedAt({"fetch_generated"}))
              => /\ attempted = <<"manual", "auto">>
                 /\ ReturnedDataOf(v.tracks[1])

\* The manual lookup failed, the generated transcript was fetched and its
\* text returned.
C2_Witness ==
    /\ pc = "ret"
    /\ v.tracks = <<GeneratedEn>>
    /\ attempted = <<"manual", "auto">>
    /\ result.text = <<"x", " ", " ", "y", "z">>

-----------------------------------------------------------------------------
(* C3 *)

\* Nothing raised but the library's missing list_transcripts and lookups of
\* tracks the video does not have.
NoUpstreamError ==
    \A k \in DOMAIN raised : raised[k].cause \in {"version", "missing"}

\* C3 as stated, on the calls without an upstream error: for a video with no
\* English transcript track but a transcript in another language,
\* get_transcript returns the text of one of its transcripts translated to
\* English, on the list_transcripts path and on the legacy path alike.
C3_OtherLanguageTranslated ==
    (pc = "ret" /\ NoEnglish(v) /\ NoUpstreamError) =>
        \E k \in DOMAIN v.tracks : ReturnedTextOf(translate(v.tracks[k]))

-----------------------------------------------------------------------------
(* C4 *)

\* C4 as stated, on the calls whose listing succeeded: the call ends in the
\* failure result only after the manual, the auto-generated and the
\* translate strategy have each been attempted, in that order, and have
\* each failed.
C4_FailureOnlyAfterAllStrategies ==
    (pc = "ret" /\ Listed /\ result.none) =>
        /\ attempted = <<"manual", "auto", "translate">>
        /\ RaisedAt({"find_manual", "fetch_manual"})
        /\ RaisedAt({"find_generated", "fetch_generated"})
        /\ transcript_list = << >> \/ RaisedAt({"translate", "fetch_translated"})

-----------------------------------------------------------------------------
(* C5 *)

\* C5: for a video with no transcript at all, get_transcript returns None,
\* never a text, whether list_transcripts returns an empty listing or raises.
C5_NoTranscriptIsNotFound ==
    (pc = "ret" /\ v.tracks = << >>) => result.none

\* The listing was empty and every strategy was tried on it.
C5_Witness ==
    /\ pc = "ret"
    /\ v.tracks = << >>
    /\ attempted = <<"manual", "auto", "translate">>
    /\ result.none

-----------------------------------------------------------------------------
(* C6 *)

\* C6: no exception raised by an upstream call or by the join leaves
\* get_transcript: each one resumes at a handler inside it, and the call
\* returns a text or None.
C6_NothingPropagates ==
    /\ pc # "crashed"
    /\ \A k \in DOMAIN raised : Handler(raised[k].site, raised[k].exc) # "propagate"
    /\ (pc = "ret" /\ ~result.none) => DataTruthy(transcript_data)

\* A call that returned after exceptions at a fetch and at the join.
C6_Witness ==
    /\ pc = "ret"
    /\ RaisedAt({"fetch_manual"})
    /\ RaisedAt({"join"})
    /\ result.none

-----------------------------------------------------------------------------
(* The report, as the claims about main read it.                           *)

IsHead(l) == l.kind \in {"VIDEO: ", "FAILED TO GET TRANSCRIPT: "}
IsUrl(l)  == l.kind = "URL: https://youtube.com/watch?v="

\* The first line of every record written so far, in file order.
Heads == SelectSeq(f, IsHead)

\* The videos whose record has been written.
Processed == IF pc \in {"loop", "done"} THEN i ELSE i - 1

-----------------------------------------------------------------------------
(* C7 *)

\* So far the report holds one record per processed video, in input order.
OneRecordEach ==
    /\ Len(Heads) = Processed
    /\ Len(SelectSeq(f, IsUrl)) = Processed
    /\ \A k \in 1..Processed :
          /\ Heads[k].n = video_data[k].title
          /\ SelectSeq(f, IsUrl)[k].n = video_data[k].id

\* C7: the loop of main writes exactly one record per video, in input
\* order, whatever the outcome of the earlier videos, and the run reaches
\* its end with every video recorded.
C7_EveryVideoOnceInOrder ==
    /\ []OneRecordEach
    /\ <>(pc = "done" /\ Len(Heads) = Len(video_data))

\* Three videos of which only the second has no transcript: a success, a
\* failure and a success record, in that order, at the end of the run.
C7_Witness ==
    /\ pc = "done"
    /\ Len(video_data) = 3
    /\ video_data[1].tracks = <<ManualEn>>
    /\ video_data[2].tracks = << >>
    /\ video_data[3].tracks = <<ManualEn>>
    /\ [k \in 1..3 |-> Heads[k].kind]
          = <<"VIDEO: ", "FAILED TO GET TRANSCRIPT: ", "VIDEO: ">>
    /\ successful = 2
    /\ failed = 1

-----------------------------------------------------------------------------
(* C9 *)

\* C9: in every record of the report, success or failure, the first line
\* is followed by the canonical URL of that record's video and then by the
\* same separator line of 30 dashes.
C9_UrlAndSeparatorInEveryRecord ==
    \A j \in DOMAIN f :
        IsHead(f[j]) =>
            LET video == video_data[Len(SelectSeq(SubSeq(f, 1, j), IsHead))] IN
            /\ j + 2 <= Len(f)
            /\ f[j + 1] = [kind |-> "URL: https://youtube.com/watch?v=",
                           n |-> video.id, text |-> << >>]
            /\ f[j + 2] = [kind |-> "-", n |-> 30, text |-> << >>]

\* A finished report that holds a success and a failure record.
C9_Witness ==
    /\ pc = "done"
    /\ \E j, k \in DOMAIN f :
          /\ f[j].kind = "VIDEO: "
          /\ f[k].kind = "FAILED TO GET TRANSCRIPT: "
          /\ f[j + 2] = f[k + 2]

-----------------------------------------------------------------------------
(* C10 *)

\* The fetched data holds no segment, or only empty ones.
NoTextInData ==
    /\ transcript_data.kind = "list"
    /\ \A k \in DOMAIN transcript_data.segs : transcript_data.segs[k] = << >>

\* C10: main writes a success record exactly when get_transcript returned a
\* non-empty text; a transcript fetched without segments, or whose segments
\* join to the empty string, is recorded as a failure; and the two counters
\* add up to the number of videos processed.
C10_SuccessIffNonEmptyText ==
    /\ successful + failed = Processed
    /\ successful = Len(SelectSeq(Heads, LAMBDA l : l.kind = "VIDEO: "))
    /\ (pc = "loop" /\ i >= 1) =>
          /\ (Heads[i].kind = "VIDEO: ") <=> (~result.none /\ result.text # << >>)
          /\ NoTextInData => Heads[i].kind = "FAILED TO GET TRANSCRIPT: "

\* A transcript whose only segment is empty was fetched, get_transcript
\* returned the empty string, and main recorded a failure.
C10_Witness ==
    /\ pc = "loop"
    /\ i >= 1
    /\ transcript_data = Data("list", << <<>> >>)
    /\ ~result.none
    /\ Heads[i].kind = "FAILED TO GET TRANSCRIPT: "
    /\ failed >= 1

-----------------------------------------------------------------------------
(* C8 *)

\* C8: the text returned for fetched segments is the segments in the order
\* fetched, with exactly one space between two consecutive segments and
\* none before the first or after the last.
C8_SingleSpaceJoin ==
    (pc = "ret" /\ transcript_data.segs # << >>) =>
        /\ ~result.none
        /\ SpaceJoined(result.text, transcript_data.segs)

\* Segments "a", "b", "c" gave "a b c".
C8_Witness ==
    /\ pc = "ret"
    /\ transcript_data.segs = << <<"a">>, <<"b">>, <<"c">> >>
    /\ result = [none |-> FALSE, text |-> <<"a", " ", "b", " ", "c">>]

====
